---------------------------- MODULE Spec2Model ----------------------------
(***************************************************************************)
(* Model of the SMTP/LMTP proxy backend (backend.go) and of its session    *)
(* adapter (session.go).                                                   *)
(*                                                                         *)
(* The go-smtp client, the net/tls dialers and the io.Reader handed to     *)
(* Data are outside the repository: every call into them is an action      *)
(* whose outcome (success, failure, the value returned) is chosen by \E.   *)
(***************************************************************************)
EXTENDS Integers, Sequences, FiniteSets, TLC

(***************************** bounds **************************************)
MaxCalls == 2    \* Login / AnonymousLogin calls made on one Backend
MaxLen   == 2    \* length of the message handed to Data
MaxChunk == 2    \* bytes moved by one read/write round of io.Copy
MaxCb    == 2    \* status callbacks fired by one close of the data writer
MaxData  == 2    \* Data calls made on one session
MaxProcs == 2    \* Login / AnonymousLogin calls running concurrently

(************************* program constants *******************************)
SecurityTLS      == 0
SecurityStartTLS == 1
SecurityNone     == 2

\* time.Duration values, in seconds
defaultTimeout           == 30
defaultCommandTimeout    == 300
defaultSubmissionTimeout == 720

(************************* value universes *********************************)
Securities    == {SecurityTLS, SecurityStartTLS, SecurityNone}
Durations     == {0, 7}
HostNames     == {"", "h"}
LocalNames    == {"", "n"}
\* an address is the sequence of its characters
Addrs         == {<<"m", ":", "2">>, <<"m">>}
\* *tls.Config: the nil pointer, or a configuration with its ServerName
NilTLS        == [nil |-> TRUE, ServerName |-> ""]
TLSConfigs    == {NilTLS, [nil |-> FALSE, ServerName |-> ""],
                  [nil |-> FALSE, ServerName |-> "sni"]}
\* *smtp.SMTPError handed to the status callback ("nil" is the nil pointer,
\* the value of the session's st field before any callback)
Statuses      == {"250", "554"}
\* error values returned by the upstream client for a forwarded command
UpstreamRets  == {"nil", "550"}
Bytes         == {"a", "b"}

(***************************************************************************)
(* *smtp.Client as this package sees it: nil, or a client that remembers   *)
(* what this package handed to it at construction.                         *)
(***************************************************************************)
NilClient ==
    [nil |-> TRUE, lmtp |-> FALSE, host |-> "", timeoutsSet |-> FALSE,
     CommandTimeout |-> 0, SubmissionTimeout |-> 0]

NoConn == [state |-> "none", kind |-> "none", timeout |-> 0, serverName |-> ""]

NoSession == [nil |-> TRUE, c |-> NilClient, st |-> "nil"]

NoRet == [returned |-> FALSE, session |-> FALSE, err |-> "nil"]

NoLocals ==
    [dialTimeout |-> 0, commandTimeout |-> 0, submissionTimeout |-> 0,
     host |-> "", tlsConfig |-> NilTLS]

\* one Data call: the bytes the reader r has delivered, the events seen by
\* the upstream data writer (bytes, then "CLOSE"), the errors, the callbacks
IdleData ==
    [pc |-> "idle", input |-> <<>>, opened |-> FALSE, wlog |-> <<>>,
     copyErr |-> "nil", closeErr |-> "nil", cbFired |-> FALSE,
     cbLast |-> "nil", stBefore |-> "nil"]

NoFwd == [op |-> "none", upstream |-> "nil", ret |-> "nil"]

Procs == 1 .. MaxProcs

\* the locals of one concurrent call: conn and c name the connection dialled
\* (0: none / nil); sessions[p] is the connection held by the session that
\* call p returned (0: no session)
IdleProc == [pc |-> "idle", entry |-> "none", conn |-> 0, c |-> 0,
             err |-> "nil"]

NoConc == [procs |-> [p \in Procs |-> IdleProc], conns |-> <<>>,
           sessions |-> [p \in Procs |-> 0]]

VARIABLES
    be,         \* the Backend: its exported configuration fields
    pc,         \* position of the running Login / AnonymousLogin call
    entry,      \* which entry point is running
    calls,      \* number of calls started
    locals,     \* newConn's resolved locals (lines 73-98)
    conn,       \* the net.Conn dialled by the running call
    c,          \* the *smtp.Client of the running call
    err,        \* the error of the running call
    trace,      \* upstream operations issued by the running call, in order
    dialCount,  \* dials attempted on this Backend, over all calls
    ret,        \* what the last call returned
    sess,       \* the session returned by a successful call
    data,       \* the running / last Data call of the session
    dataCalls,  \* Data calls started on the session
    fwd,        \* the last forwarded command and its result
    conc        \* concurrent calls on one Backend: their locals, the
                \* connections dialled, the sessions returned

vars == <<be, pc, entry, calls, locals, conn, c, err, trace, dialCount, ret,
          sess, data, dataCalls, fwd, conc>>

loginVars   == <<pc, entry, calls, locals, conn, c, err, trace, dialCount, ret>>
sessionVars == <<sess, data, dataCalls, fwd>>

(***************************** helpers *************************************)
RECURSIVE Count(_, _)
Count(s, x) ==
    IF s = <<>> THEN 0
    ELSE (IF Head(s) = x THEN 1 ELSE 0) + Count(Tail(s), x)

RECURSIVE Join(_)
Join(s) == IF s = <<>> THEN "" ELSE Head(s) \o Join(Tail(s))

\* index of the last ":" of an address, 0 when there is none
RECURSIVE LastColon(_, _)
LastColon(a, i) ==
    IF i = 0 THEN 0
    ELSE IF a[i] = ":" THEN i ELSE LastColon(a, i - 1)

(***************************************************************************)
(* net.SplitHostPort, on addresses without brackets: the text before the   *)
(* single colon; an address with no colon or with several is an error and  *)
(* the host returned with the error is empty.                              *)
(***************************************************************************)
SplitHostPort(a) ==
    LET i == LastColon(a, Len(a)) IN
    IF i = 0 \/ Count(a, ":") # 1 THEN ""
    ELSE Join(SubSeq(a, 1, i - 1))

(************************ Backend constructors *****************************)
Backend(addr, sec, tls, lmtp, host, localName, dt, ct, st) ==
    [Addr |-> addr, Security |-> sec, TLSConfig |-> tls, LMTP |-> lmtp,
     Host |-> host, LocalName |-> localName, DialTimeout |-> dt,
     CommandTimeout |-> ct, SubmissionTimeout |-> st]

New(addr) ==
    Backend(addr, SecurityStartTLS, NilTLS, FALSE, "", "", 0, 0, 0)

NewTLS(addr, tlsConfig) ==
    Backend(addr, SecurityTLS, tlsConfig, FALSE, "", "", 0, 0, 0)

\* NewLMTP leaving Security at its zero value, which is SecurityTLS
NewLMTPZeroSecurity(addr, host) ==
    Backend(addr, SecurityTLS, NilTLS, TRUE, host, "", 0, 0, 0)

NewLMTP(addr, host) ==
    Backend(addr, SecurityNone, NilTLS, TRUE, host, "", 0, 0, 0)

\* every value the exported fields of a Backend can hold
Backends ==
    [Addr : Addrs, Security : Securities, TLSConfig : TLSConfigs,
     LMTP : BOOLEAN, Host : HostNames, LocalName : LocalNames,
     DialTimeout : Durations, CommandTimeout : Durations,
     SubmissionTimeout : Durations]

\* a constructor's result, with the documented optional fields set or not
ConstructedBackends ==
    LET made == {New(a) : a \in Addrs}
                \cup {NewTLS(a, t) : a \in Addrs, t \in TLSConfigs}
                \cup {NewLMTP(a, h) : a \in Addrs, h \in HostNames}
    IN  {[b EXCEPT !.LocalName = n] : b \in made, n \in LocalNames}

(************************* newConn, lines 73-98 ****************************)
ResolveTimeoutAlwaysDefault(configured, default) == default

ResolveTimeout(configured, default) ==
    IF configured = 0 THEN default ELSE configured

ResolveHost(b) ==
    IF b.Host = "" THEN SplitHostPort(b.Addr) ELSE b.Host

ResolveTLS(b, host) ==
    LET cloned == IF b.TLSConfig.nil
                  THEN [nil |-> FALSE, ServerName |-> ""]
                  ELSE b.TLSConfig
    IN  IF cloned.ServerName = ""
        THEN [cloned EXCEPT !.ServerName = host]
        ELSE cloned

Resolve(b) ==
    LET host == ResolveHost(b) IN
    [dialTimeout       |-> ResolveTimeout(b.DialTimeout, defaultTimeout),
     commandTimeout    |-> ResolveTimeout(b.CommandTimeout,
                                          defaultCommandTimeout),
     submissionTimeout |-> ResolveTimeout(b.SubmissionTimeout,
                                          defaultSubmissionTimeout),
     host              |-> host,
     tlsConfig         |-> ResolveTLS(b, host)]

(************************* newConn, lines 100-118 **************************)
ConfigErrorNever(b) == FALSE

\* the LMTP-with-TLS check made before any dial
ConfigError(b) == b.LMTP /\ b.Security # SecurityNone

\* a dialer choice that wraps every secured SMTP connection in TLS
DialKindTLSForStartTLS(b) ==
    IF b.LMTP THEN "tcp"
    ELSE IF b.Security # SecurityNone THEN "tls" ELSE "tcp"

\* which dialer opens the transport
DialKind(b) ==
    IF b.LMTP THEN "tcp"
    ELSE IF b.Security = SecurityTLS THEN "tls" ELSE "tcp"

(************************* newConn, lines 120-132 **************************)
LMTPClient(b) ==
    [nil |-> FALSE, lmtp |-> TRUE, host |-> b.Host, timeoutsSet |-> FALSE,
     CommandTimeout |-> 0, SubmissionTimeout |-> 0]

SMTPClient(l) ==
    [nil |-> FALSE, lmtp |-> FALSE, host |-> "", timeoutsSet |-> TRUE,
     CommandTimeout |-> l.commandTimeout,
     SubmissionTimeout |-> l.submissionTimeout]

(************************* login, lines 150-162 ****************************)
AfterNewConnAlwaysAuth(e, error) == "auth"

\* where the call goes once newConn has returned: login authenticates only
\* when newConn returned no error; AnonymousLogin never does
AfterNewConn(e, error) ==
    IF e = "Login" /\ error = "nil" THEN "auth" ELSE "finish"

(****************** Login / AnonymousLogin, lines 166-171 ******************)
MustClose(client, error) == error # "nil" /\ ~client.nil

(***************************** initial states ******************************)
InitRest ==
    /\ pc = "idle"
    /\ entry = "none"
    /\ calls = 0
    /\ locals = NoLocals
    /\ conn = NoConn
    /\ c = NilClient
    /\ err = "nil"
    /\ trace = <<>>
    /\ dialCount = 0
    /\ ret = NoRet
    /\ sess = NoSession
    /\ data = IdleData
    /\ dataCalls = 0
    /\ fwd = NoFwd
    /\ conc = NoConc

Init == be \in Backends /\ InitRest

(************************ Login / AnonymousLogin ***************************)
\* a newConn that sets the server name on the Backend's own TLS
\* configuration instead of on a clone of it
StartCallNoClone(e) ==
    /\ pc = "idle"
    /\ sess.nil
    /\ calls < MaxCalls
    /\ calls' = calls + 1
    /\ entry' = e
    /\ locals' = Resolve(be)
    /\ be' = [be EXCEPT !.TLSConfig =
                 IF be.TLSConfig.nil THEN be.TLSConfig
                 ELSE ResolveTLS(be, ResolveHost(be))]
    /\ conn' = NoConn
    /\ c' = NilClient
    /\ err' = "nil"
    /\ trace' = <<>>
    /\ ret' = NoRet
    /\ pc' = "open"
    /\ UNCHANGED <<conc, dialCount>>
    /\ UNCHANGED sessionVars

\* entry into Login or AnonymousLogin: newConn resolves its locals
StartCall(e) ==
    /\ pc = "idle"
    /\ sess.nil
    /\ calls < MaxCalls
    /\ calls' = calls + 1
    /\ entry' = e
    /\ locals' = Resolve(be)
    /\ conn' = NoConn
    /\ c' = NilClient
    /\ err' = "nil"
    /\ trace' = <<>>
    /\ ret' = NoRet
    /\ pc' = "open"
    /\ UNCHANGED <<be, conc, dialCount>>
    /\ UNCHANGED sessionVars

\* Login, line 165, through login line 151
Login ==
    /\ entry' = "Login"
    /\ StartCall("Login")

\* AnonymousLogin, line 181
AnonymousLogin ==
    /\ entry' = "AnonymousLogin"
    /\ StartCall("AnonymousLogin")

\* newConn lines 100-118: validation, then the dial
OpenTransport ==
    /\ pc = "open"
    /\ IF ConfigError(be)
       THEN /\ err' = "config"
            /\ pc' = AfterNewConn(entry, "config")
            /\ UNCHANGED <<conn, trace, dialCount>>
       ELSE \E ok \in BOOLEAN :
            /\ dialCount' = dialCount + 1
            /\ trace' = Append(trace, "dial")
            /\ conn' = [state      |-> IF ok THEN "open" ELSE "none",
                        kind       |-> DialKind(be),
                        timeout    |-> locals.dialTimeout,
                        serverName |-> IF DialKind(be) = "tls"
                                       THEN locals.tlsConfig.ServerName
                                       ELSE ""]
            /\ err' = IF ok THEN "nil" ELSE "dial"
            /\ pc' = IF ok THEN "init" ELSE AfterNewConn(entry, "dial")
    /\ UNCHANGED <<be, conc, entry, calls, locals, c, ret>>
    /\ UNCHANGED sessionVars

(***************************************************************************)
(* newConn lines 120-132.  smtp.NewClientLMTP returns (client, error): on  *)
(* failure the client it returns is the library's choice, nil or not.  On  *)
(* the SMTP path the client is allocated here, so it is never nil.  A      *)
(* failed initialization may or may not have closed the transport inside   *)
(* the library.                                                            *)
(***************************************************************************)
InitClient ==
    /\ pc = "init"
    /\ \E ok \in BOOLEAN, nilOnFail \in BOOLEAN, libCloses \in BOOLEAN :
        /\ trace' = Append(trace, "init")
        /\ c' = IF be.LMTP
                THEN IF ~ok /\ nilOnFail THEN NilClient ELSE LMTPClient(be)
                ELSE SMTPClient(locals)
        /\ conn' = IF ~ok /\ libCloses
                   THEN [conn EXCEPT !.state = "closed"] ELSE conn
        /\ err' = IF ok THEN "nil" ELSE "init"
        /\ pc' = IF ok THEN "hello" ELSE AfterNewConn(entry, "init")
    /\ UNCHANGED <<be, conc, entry, calls, locals, dialCount, ret>>
    /\ UNCHANGED sessionVars

\* a newConn that announces the local name even when it is empty
HelloAlways ==
    /\ pc = "hello"
    /\ IF TRUE
       THEN \E ok \in BOOLEAN :
            /\ trace' = Append(trace, "hello")
            /\ err' = IF ok THEN "nil" ELSE "hello"
            /\ pc' = IF ok THEN "starttls" ELSE AfterNewConn(entry, "hello")
       ELSE /\ pc' = "starttls"
            /\ UNCHANGED <<trace, err>>
    /\ UNCHANGED <<be, conc, entry, calls, locals, conn, c, dialCount, ret>>
    /\ UNCHANGED sessionVars

\* newConn lines 134-139
Hello ==
    /\ pc = "hello"
    /\ IF be.LocalName # ""
       THEN \E ok \in BOOLEAN :
            /\ trace' = Append(trace, "hello")
            /\ err' = IF ok THEN "nil" ELSE "hello"
            /\ pc' = IF ok THEN "starttls" ELSE AfterNewConn(entry, "hello")
       ELSE /\ pc' = "starttls"
            /\ UNCHANGED <<trace, err>>
    /\ UNCHANGED <<be, conc, entry, calls, locals, conn, c, dialCount, ret>>
    /\ UNCHANGED sessionVars

\* a newConn that returns the plaintext client without upgrading it
StartTLSSkipped ==
    /\ pc = "starttls"
    /\ pc' = AfterNewConn(entry, "nil")
    /\ UNCHANGED <<be, conc, entry, calls, locals, c, dialCount, ret>>
    /\ UNCHANGED <<trace, conn, err>>
    /\ UNCHANGED sessionVars

\* newConn lines 141-147
StartTLS ==
    /\ pc = "starttls"
    /\ IF be.Security = SecurityStartTLS
       THEN \E ok \in BOOLEAN :
            /\ trace' = Append(trace, "starttls")
            /\ conn' = IF ok
                       THEN [conn EXCEPT !.kind = "starttls",
                                         !.serverName =
                                             locals.tlsConfig.ServerName]
                       ELSE conn
            /\ err' = IF ok THEN "nil" ELSE "starttls"
            /\ pc' = AfterNewConn(entry, IF ok THEN "nil" ELSE "starttls")
       ELSE /\ pc' = AfterNewConn(entry, "nil")
            /\ UNCHANGED <<trace, conn, err>>
    /\ UNCHANGED <<be, conc, entry, calls, locals, c, dialCount, ret>>
    /\ UNCHANGED sessionVars

\* login lines 156-161: the plain-credential exchange
Auth ==
    /\ pc = "auth"
    /\ \E ok \in BOOLEAN :
        /\ trace' = Append(trace, "auth")
        /\ err' = IF ok THEN "nil" ELSE "auth"
    /\ pc' = "finish"
    /\ UNCHANGED <<be, conc, entry, calls, locals, conn, c, dialCount, ret>>
    /\ UNCHANGED sessionVars

\* Login lines 166-177 and AnonymousLogin lines 182-193
Finish ==
    /\ pc = "finish"
    /\ pc' = "idle"
    /\ IF err # "nil"
       THEN /\ IF MustClose(c, err)
               THEN /\ trace' = Append(trace, "close")
                    /\ conn' = [conn EXCEPT !.state = "closed"]
               ELSE UNCHANGED <<trace, conn>>
            /\ ret' = [returned |-> TRUE, session |-> FALSE, err |-> err]
            /\ UNCHANGED sess
       ELSE /\ sess' = [nil |-> FALSE, c |-> c, st |-> "nil"]
            /\ ret' = [returned |-> TRUE, session |-> TRUE, err |-> "nil"]
            /\ UNCHANGED <<trace, conn>>
    /\ UNCHANGED <<be, conc, entry, calls, locals, c, err, dialCount>>
    /\ UNCHANGED <<data, dataCalls, fwd>>

(***************************************************************************)
(*                           session (session.go)                          *)
(***************************************************************************)
SessionIdle == ~sess.nil /\ pc = "idle" /\ data.pc = "idle"

\* Noop, Mail, Rcpt: `return s.c.X(...)`
Forward(r) == r

\* statusCb, lines 60-62
statusCbIgnores(s, status) == s

statusCb(s, status) == [s EXCEPT !.st = status]

\* Status, lines 56-58
StatusOf(s) == s.st

\* the callbacks fired by the library during one close of the data writer
RECURSIVE FireAll(_, _)
FireAll(s, cbs) ==
    IF cbs = <<>> THEN s ELSE FireAll(statusCb(s, Head(cbs)), Tail(cbs))

\* io.Copy writes to the writer what it has read from the reader
CopyChunkDropsFirst(wlog, chunk) == wlog \o Tail(chunk)

CopyChunk(wlog, chunk) == wlog \o chunk

\* Data lines 44-49: the copy error wins over the writer's close error
DataResultCloseWins(copyErr, closeErr) ==
    IF closeErr # "nil" THEN closeErr ELSE copyErr

DataResult(copyErr, closeErr) ==
    IF copyErr # "nil" THEN copyErr ELSE closeErr

Min(a, b) == IF a < b THEN a ELSE b

Chunks(n) == UNION {[1..k -> Bytes] : k \in 1..n}

CallbackRuns == UNION {[1..n -> Statuses] : n \in 0..MaxCb}

\* a Reset that also forgets the status of the last transfer
ResetClearsStatus ==
    /\ SessionIdle
    /\ \E r \in UpstreamRets :
        fwd' = [op |-> "Reset", upstream |-> r, ret |-> "void"]
    /\ sess' = [sess EXCEPT !.st = "nil"]
    /\ UNCHANGED <<be, conc, data, dataCalls>>
    /\ UNCHANGED loginVars

\* Reset, lines 21-23: the upstream result is dropped
Reset ==
    /\ SessionIdle
    /\ \E r \in UpstreamRets :
        fwd' = [op |-> "Reset", upstream |-> r, ret |-> "void"]
    /\ UNCHANGED <<be, conc, sess, data, dataCalls>>
    /\ UNCHANGED loginVars

ForwardCmd(op) ==
    /\ SessionIdle
    /\ \E r \in UpstreamRets :
        fwd' = [op |-> op, upstream |-> r, ret |-> Forward(r)]
    /\ UNCHANGED <<be, conc, sess, data, dataCalls>>
    /\ UNCHANGED loginVars

\* a Noop that tears the connection down when the upstream reports an error
NoopClosesOnError ==
    /\ SessionIdle
    /\ \E r \in UpstreamRets :
        /\ fwd' = [op |-> "Noop", upstream |-> r, ret |-> Forward(r)]
        /\ conn' = IF r # "nil" THEN [conn EXCEPT !.state = "closed"]
                   ELSE conn
    /\ UNCHANGED <<be, conc, sess, data, dataCalls>>
    /\ UNCHANGED <<pc, entry, calls, locals, c, err, trace, dialCount, ret>>

\* Noop, lines 25-27
Noop ==
    /\ ForwardCmd("Noop")
    /\ fwd'.op = "Noop"

\* Mail, lines 29-31
Mail ==
    /\ ForwardCmd("Mail")
    /\ fwd'.op = "Mail"

\* Rcpt, lines 33-35
Rcpt ==
    /\ ForwardCmd("Rcpt")
    /\ fwd'.op = "Rcpt"

\* Logout, lines 52-54: Quit ends the upstream connection when it succeeds;
\* when it fails the library may or may not have closed it
Logout ==
    /\ SessionIdle
    /\ \E r \in UpstreamRets, closedAnyway \in BOOLEAN :
        /\ fwd' = [op |-> "Logout", upstream |-> r, ret |-> Forward(r)]
        /\ conn' = IF r = "nil" \/ closedAnyway
                   THEN [conn EXCEPT !.state = "closed"] ELSE conn
    /\ UNCHANGED <<be, conc, sess, data, dataCalls>>
    /\ UNCHANGED <<pc, entry, calls, locals, c, err, trace, dialCount, ret>>

\* Status, lines 56-58
Status ==
    /\ SessionIdle
    /\ fwd' = [op |-> "Status", upstream |-> "nil", ret |-> StatusOf(sess)]
    /\ UNCHANGED <<be, conc, sess, data, dataCalls>>
    /\ UNCHANGED loginVars

\* a Data that empties the status slot before it opens the data writer
DataOpenClearsStatus ==
    /\ SessionIdle
    /\ dataCalls < MaxData
    /\ dataCalls' = dataCalls + 1
    /\ sess' = [sess EXCEPT !.st = "nil"]
    /\ \E e \in UpstreamRets :
        LET d == [IdleData EXCEPT !.stBefore = sess.st]
        IN  IF e # "nil"
            THEN /\ data' = d
                 /\ fwd' = [op |-> "Data", upstream |-> e, ret |-> e]
            ELSE /\ data' = [d EXCEPT !.pc = "copy", !.opened = TRUE]
                 /\ fwd' = [op |-> "Data", upstream |-> "nil",
                            ret |-> "pending"]
    /\ UNCHANGED <<be, conc>>
    /\ UNCHANGED loginVars

\* a Data that reports success when the upstream refuses the data writer
DataOpenSwallowsError ==
    /\ SessionIdle
    /\ dataCalls < MaxData
    /\ dataCalls' = dataCalls + 1
    /\ \E e \in UpstreamRets :
        LET d == [IdleData EXCEPT !.stBefore = sess.st]
        IN  IF e # "nil"
            THEN /\ data' = d
                 /\ fwd' = [op |-> "Data", upstream |-> e, ret |-> "nil"]
            ELSE /\ data' = [d EXCEPT !.pc = "copy", !.opened = TRUE]
                 /\ fwd' = [op |-> "Data", upstream |-> "nil",
                            ret |-> "pending"]
    /\ UNCHANGED <<be, conc, sess>>
    /\ UNCHANGED loginVars

\* Data, lines 38-41: s.c.Data(s.statusCb) opens the upstream data writer
DataOpen ==
    /\ SessionIdle
    /\ dataCalls < MaxData
    /\ dataCalls' = dataCalls + 1
    /\ \E e \in UpstreamRets :
        LET d == [IdleData EXCEPT !.stBefore = sess.st]
        IN  IF e # "nil"
            THEN /\ data' = d
                 /\ fwd' = [op |-> "Data", upstream |-> e, ret |-> e]
            ELSE /\ data' = [d EXCEPT !.pc = "copy", !.opened = TRUE]
                 /\ fwd' = [op |-> "Data", upstream |-> "nil",
                            ret |-> "pending"]
    /\ UNCHANGED <<be, conc, sess>>
    /\ UNCHANGED loginVars

(***************************************************************************)
(* Data line 43: one round of io.Copy.  The reader fails, or reports the   *)
(* end of its input, or delivers a chunk that is written to the writer;    *)
(* a failed write has put a strict prefix of the chunk on the wire.        *)
(***************************************************************************)
CopyStep ==
    /\ data.pc = "copy"
    /\ \/ data' = [data EXCEPT !.copyErr = "readErr", !.pc = "close"]
       \/ data' = [data EXCEPT !.copyErr = "nil", !.pc = "close"]
       \/ /\ Len(data.input) < MaxLen
          /\ \E chunk \in Chunks(Min(MaxChunk, MaxLen - Len(data.input))) :
              \/ data' = [data EXCEPT
                            !.input = data.input \o chunk,
                            !.wlog = CopyChunk(data.wlog, chunk)]
              \/ \E m \in 0 .. Len(chunk) - 1 :
                  data' = [data EXCEPT
                            !.input = data.input \o chunk,
                            !.wlog = data.wlog \o SubSeq(chunk, 1, m),
                            !.copyErr = "writeErr",
                            !.pc = "close"]
    /\ UNCHANGED <<be, conc, sess, dataCalls, fwd>>
    /\ UNCHANGED loginVars

(***************************************************************************)
(* Data lines 44-49: wc.Close() on either path.  While it closes, the      *)
(* library hands the completion status to the callback given to c.Data,    *)
(* any number of times (once per recipient over LMTP), or not at all.      *)
(***************************************************************************)
CloseWriter ==
    /\ data.pc = "close"
    /\ \E cbs \in CallbackRuns, cerr \in UpstreamRets :
        /\ sess' = FireAll(sess, cbs)
        /\ data' = [data EXCEPT
                      !.pc = "idle",
                      !.wlog = Append(data.wlog, "CLOSE"),
                      !.closeErr = cerr,
                      !.cbFired = (cbs # <<>>),
                      !.cbLast = IF cbs = <<>> THEN "nil"
                                 ELSE cbs[Len(cbs)]]
        /\ fwd' = [op |-> "Data", upstream |-> cerr,
                   ret |-> DataResult(data.copyErr, cerr)]
    /\ UNCHANGED <<be, conc, dataCalls>>
    /\ UNCHANGED loginVars

Next ==
    \/ Login
    \/ AnonymousLogin
    \/ OpenTransport
    \/ InitClient
    \/ Hello
    \/ StartTLS
    \/ Auth
    \/ Finish

Spec == Init /\ [][Next]_vars

(***************************************************************************)
(* The session specification starts where AnonymousLogin has just returned *)
(* a session on New("m:2"): lines 189-193.                                 *)
(***************************************************************************)
SessionBackend == New(<<"m", ":", "2">>)

AfterAnonymousLogin ==
    /\ be = SessionBackend
    /\ pc = "idle"
    /\ entry = "AnonymousLogin"
    /\ calls = 1
    /\ locals = Resolve(SessionBackend)
    /\ conn = [state |-> "open", kind |-> "starttls", timeout |-> 30,
               serverName |-> "m"]
    /\ c = SMTPClient(Resolve(SessionBackend))
    /\ err = "nil"
    /\ trace = <<"dial", "init", "starttls">>
    /\ dialCount = 1
    /\ ret = [returned |-> TRUE, session |-> TRUE, err |-> "nil"]
    /\ sess = [nil |-> FALSE, c |-> SMTPClient(Resolve(SessionBackend)),
               st |-> "nil"]
    /\ data = IdleData
    /\ dataCalls = 0
    /\ fwd = NoFwd
    /\ conc = NoConc

InitSession == AfterAnonymousLogin

NextSession ==
    \/ Reset
    \/ Noop
    \/ Mail
    \/ Rcpt
    \/ Logout
    \/ Status
    \/ DataOpen
    \/ CopyStep
    \/ CloseWriter

SpecSession == InitSession /\ [][NextSession]_vars

(***************************************************************************)
(* Calls on a Backend as New, NewTLS or NewLMTP return it (lines 48-67),   *)
(* with LocalName set afterwards or not.                                   *)
(***************************************************************************)
InitConstructed == be \in ConstructedBackends /\ InitRest

SpecConstructed == InitConstructed /\ [][Next]_vars

(***************************************************************************)
(*       Concurrent Login / AnonymousLogin calls on one Backend            *)
(*                                                                         *)
(* newConn, login, Login and AnonymousLogin keep conn, c and err in local  *)
(* variables and only read the Backend, so each call is a process with its *)
(* own copy of them; every successful dial yields a connection of its own. *)
(***************************************************************************)
Local(p) == conc.procs[p]

SetLocal(p, l) == [conc EXCEPT !.procs[p] = l]

\* the client a call closes or wraps is the one in its own local c
\* (lines 165-174, 181-190); the variant keeps it in a variable shared by
\* all calls, which holds the client made last
ClientOfCallShared(l, conns) == IF l.c = 0 THEN 0 ELSE Len(conns)

ClientOfCall(l, conns) == l.c

CloseConn(conns, id) == [conns EXCEPT ![id].state = "closed"]

\* Login line 165 / AnonymousLogin line 181, for call p
CStart(p, e) ==
    /\ Local(p).pc = "idle"
    /\ conc' = SetLocal(p, [IdleProc EXCEPT !.pc = "open", !.entry = e])
    /\ UNCHANGED <<be, loginVars, sessionVars>>

CLogin(p) ==
    /\ CStart(p, "Login")
    /\ conc'.procs[p].entry = "Login"

CAnonymousLogin(p) ==
    /\ CStart(p, "AnonymousLogin")
    /\ conc'.procs[p].entry = "AnonymousLogin"

\* newConn lines 100-118, for call p
COpenTransport(p) ==
    LET l == Local(p) IN
    /\ l.pc = "open"
    /\ IF ConfigError(be)
       THEN conc' = SetLocal(p, [l EXCEPT
                        !.err = "config",
                        !.pc = AfterNewConn(l.entry, "config")])
       ELSE \/ conc' = [conc EXCEPT
                          !.conns = Append(conc.conns,
                                           [state |-> "open", dialer |-> p]),
                          !.procs[p] = [l EXCEPT
                                          !.conn = Len(conc.conns) + 1,
                                          !.pc = "init"]]
            \/ conc' = SetLocal(p, [l EXCEPT
                            !.err = "dial",
                            !.pc = AfterNewConn(l.entry, "dial")])
    /\ UNCHANGED <<be, loginVars, sessionVars>>

\* newConn lines 120-132, for call p
CInitClient(p) ==
    LET l == Local(p) IN
    /\ l.pc = "init"
    /\ \E ok \in BOOLEAN, nilOnFail \in BOOLEAN, libCloses \in BOOLEAN :
        conc' = [conc EXCEPT
                   !.conns = IF ~ok /\ libCloses
                             THEN CloseConn(conc.conns, l.conn)
                             ELSE conc.conns,
                   !.procs[p] = [l EXCEPT
                       !.c = IF be.LMTP /\ ~ok /\ nilOnFail THEN 0
                             ELSE l.conn,
                       !.err = IF ok THEN "nil" ELSE "init",
                       !.pc = IF ok THEN "hello"
                              ELSE AfterNewConn(l.entry, "init")]]
    /\ UNCHANGED <<be, loginVars, sessionVars>>

\* newConn lines 134-139, for call p
CHello(p) ==
    LET l == Local(p) IN
    /\ l.pc = "hello"
    /\ \E ok \in BOOLEAN :
        /\ be.LocalName = "" => ok
        /\ conc' = SetLocal(p, [l EXCEPT
                        !.err = IF ok THEN "nil" ELSE "hello",
                        !.pc = IF ok THEN "starttls"
                               ELSE AfterNewConn(l.entry, "hello")])
    /\ UNCHANGED <<be, loginVars, sessionVars>>

\* newConn lines 141-147, for call p
CStartTLS(p) ==
    LET l == Local(p) IN
    /\ l.pc = "starttls"
    /\ \E ok \in BOOLEAN :
        /\ be.Security # SecurityStartTLS => ok
        /\ conc' = SetLocal(p, [l EXCEPT
                        !.err = IF ok THEN "nil" ELSE "starttls",
                        !.pc = AfterNewConn(l.entry,
                                   IF ok THEN "nil" ELSE "starttls")])
    /\ UNCHANGED <<be, loginVars, sessionVars>>

\* login lines 156-161, for call p
CAuth(p) ==
    LET l == Local(p) IN
    /\ l.pc = "auth"
    /\ \E ok \in BOOLEAN :
        conc' = SetLocal(p, [l EXCEPT
                    !.err = IF ok THEN "nil" ELSE "auth",
                    !.pc = "finish"])
    /\ UNCHANGED <<be, loginVars, sessionVars>>

\* Login lines 166-177 / AnonymousLogin lines 182-193, for call p
CFinish(p) ==
    LET l  == Local(p)
        cl == ClientOfCall(l, conc.conns)
    IN
    /\ l.pc = "finish"
    /\ IF l.err # "nil"
       THEN conc' = [conc EXCEPT
                       !.conns = IF MustClose([nil |-> cl = 0], l.err)
                                 THEN CloseConn(conc.conns, cl)
                                 ELSE conc.conns,
                       !.procs[p] = [l EXCEPT !.pc = "failed"]]
       ELSE conc' = [conc EXCEPT
                       !.sessions[p] = cl,
                       !.procs[p] = [l EXCEPT !.pc = "session"]]
    /\ UNCHANGED <<be, loginVars, sessionVars>>

\* session.Logout, lines 52-54, on the session call p returned
CLogout(p) ==
    LET l == Local(p) IN
    /\ l.pc = "session"
    /\ conc' = [conc EXCEPT
                  !.conns = CloseConn(conc.conns, conc.sessions[p]),
                  !.procs[p] = [l EXCEPT !.pc = "loggedout"]]
    /\ UNCHANGED <<be, loginVars, sessionVars>>

ConcBackends ==
    {New(<<"m", ":", "2">>),
     [NewTLS(<<"m", ":", "2">>, NilTLS) EXCEPT !.LocalName = "n"],
     NewLMTP(<<"m", ":", "2">>, "h"),
     [NewLMTP(<<"m", ":", "2">>, "h") EXCEPT !.Security = SecurityTLS]}

InitConc == be \in ConcBackends /\ InitRest

NextConc ==
    \E p \in Procs :
        \/ CLogin(p)
        \/ CAnonymousLogin(p)
        \/ COpenTransport(p)
        \/ CInitClient(p)
        \/ CHello(p)
        \/ CStartTLS(p)
        \/ CAuth(p)
        \/ CFinish(p)
        \/ CLogout(p)

SpecConc == InitConc /\ [][NextConc]_vars

(***************************************************************************)
(*                      Claims on Login / AnonymousLogin                   *)
(***************************************************************************)
Closes   == Count(trace, "close")
Auths    == Count(trace, "auth")
Returned == pc = "idle" /\ ret.returned
\* newConn has returned its (client, error) pair to login / AnonymousLogin
NewConnReturned == pc \in {"auth", "finish"} /\ err # "auth" /\ Auths = 0

\* C1: with protocol LMTP and a security mode other than None, Login and
\* AnonymousLogin return the configuration error and no session, and no
\* dial or other upstream operation is ever performed on that Backend
\* (the dial count stays 0, no transport and no client ever exist).
C1_LMTPWithTLSNeverDials ==
    (be.LMTP /\ be.Security # SecurityNone) =>
        /\ dialCount = 0
        /\ trace = <<>>
        /\ conn.state = "none"
        /\ c.nil
        /\ pc \in {"idle", "open", "finish"}
        /\ pc = "finish" => err = "config"
        /\ Returned => (ret.err = "config" /\ ~ret.session)

C1_Witness ==
    /\ be.LMTP /\ be.Security = SecurityTLS
    /\ Returned /\ calls = MaxCalls /\ entry = "AnonymousLogin"

\* C2 (as claimed): whenever Login or AnonymousLogin returns an error, the
\* transport dialled by that call is not left open.
C2_NoLeakOnError ==
    (Returned /\ ret.err # "nil") => conn.state # "open"

\* C3 (as claimed): a call that fails at client initialization, identity
\* announcement, STARTTLS or authentication closes the connection exactly
\* once before it returns, and returns no session.
C3_ClosedExactlyOnce ==
    (Returned /\ ret.err \in {"init", "hello", "starttls", "auth"}) =>
        (Closes = 1 /\ ~ret.session)

\* C4 (as claimed): for every configuration, newConn failing at client
\* initialization, identity announcement or STARTTLS returns a non-nil
\* client with the error; failing at validation or at the dial it returns
\* a nil client and Close is never invoked.
C4_NonNilClientOnHandshakeError ==
    /\ (NewConnReturned /\ err \in {"init", "hello", "starttls"}) => ~c.nil
    /\ (NewConnReturned /\ err \in {"config", "dial"}) => c.nil
    /\ (Returned /\ ret.err \in {"config", "dial"}) => Closes = 0

\* C5: AnonymousLogin never issues an authentication exchange; Login issues
\* at most one, only from a state where newConn returned no error, and a
\* returned Login has issued exactly one if and only if newConn succeeded
\* (the call succeeded, or failed at the authentication itself).
C5_AuthOnlyInLoginAfterEstablish ==
    /\ entry = "AnonymousLogin" => (Auths = 0 /\ pc # "auth")
    /\ Auths <= 1
    /\ pc = "auth" => (entry = "Login" /\ err = "nil" /\ ~c.nil)
    /\ (Returned /\ entry = "Login") =>
           (Auths = 1 <=> ret.err \in {"nil", "auth"})
    /\ Auths = 1 => /\ conn.kind # "none"
                    /\ Count(trace, "dial") = 1
                    /\ Count(trace, "init") = 1

C5_Witness ==
    /\ Returned /\ entry = "Login" /\ Auths = 1 /\ ret.session
    /\ calls = MaxCalls

\* C6: for every configuration each of the dial, command and submission
\* timeouts resolves on its own to its default (30s, 5m, 12m) when the
\* field is zero and to the configured value otherwise; the dial is made
\* with the resolved dial timeout, and the client built on the SMTP path
\* is given the resolved command and submission timeouts.
Resolved(configured, default, got) ==
    /\ configured = 0 => got = default
    /\ configured # 0 => got = configured

C6_TimeoutsResolvedAndApplied ==
    /\ pc # "idle" =>
           /\ Resolved(be.DialTimeout, 30, locals.dialTimeout)
           /\ Resolved(be.CommandTimeout, 300, locals.commandTimeout)
           /\ Resolved(be.SubmissionTimeout, 720, locals.submissionTimeout)
    /\ (pc # "idle" /\ Count(trace, "dial") = 1) =>
           Resolved(be.DialTimeout, 30, conn.timeout)
    /\ (pc # "idle" /\ ~c.nil /\ ~c.lmtp) =>
           /\ c.timeoutsSet
           /\ Resolved(be.CommandTimeout, 300, c.CommandTimeout)
           /\ Resolved(be.SubmissionTimeout, 720, c.SubmissionTimeout)

C6_Witness ==
    /\ ~be.LMTP /\ ~c.nil /\ pc = "hello"
    /\ be.DialTimeout = 0 /\ be.CommandTimeout # 0
    /\ be.SubmissionTimeout = 0

(***************************************************************************)
(*                         Claims on the session                           *)
(***************************************************************************)
WriterCloses == Count(data.wlog, "CLOSE")
DataReturned == data.pc = "idle" /\ dataCalls > 0

\* C7: Status() is nil in every state before the first Data call, whatever
\* Reset, Noop, Mail, Rcpt (or Logout, Status) calls came first; after a
\* Data call during which the status callback fired, the session holds, and
\* Status() returns, exactly the status last handed to the callback, whether
\* Data returned nil or an error.
C7_StatusNilThenCallbackValue ==
    /\ dataCalls = 0 => sess.st = "nil"
    /\ (dataCalls = 0 /\ fwd.op = "Status") => fwd.ret = "nil"
    /\ (DataReturned /\ data.cbFired) => sess.st = data.cbLast
    /\ (DataReturned /\ data.cbFired /\ fwd.op = "Status") =>
           fwd.ret = data.cbLast

C7_Witness ==
    /\ DataReturned /\ data.cbFired /\ data.cbLast = "554"
    /\ data.closeErr # "nil" /\ data.copyErr = "nil"
    /\ fwd.op = "Status" /\ fwd.ret = "554"

\* C8: when the reader handed to Data is read to its end without error,
\* the upstream data writer has received exactly the bytes the reader
\* delivered, in order, followed by a single Close; and whatever the
\* outcome of the copy, a writer that was opened is closed exactly once,
\* after the last byte written to it.
C8_AllBytesThenOneClose ==
    /\ (DataReturned /\ data.opened /\ data.copyErr = "nil") =>
           data.wlog = data.input \o <<"CLOSE">>
    /\ (DataReturned /\ data.opened) =>
           /\ WriterCloses = 1
           /\ data.wlog[Len(data.wlog)] = "CLOSE"
    /\ data.pc # "idle" => WriterCloses = 0

C8_Witness ==
    /\ DataReturned /\ data.opened /\ data.copyErr = "nil"
    /\ Len(data.input) = MaxLen
    /\ data.input[1] # data.input[MaxLen]

\* C9 (as claimed): when the reader fails part-way, Data returns the read
\* error, the writer is closed exactly once, the status callback does not
\* fire and Status() stays nil.
C9_ReadErrorLeavesStatusAbsent ==
    (DataReturned /\ data.copyErr = "readErr") =>
        /\ fwd.op = "Data" => fwd.ret = "readErr"
        /\ WriterCloses = 1
        /\ ~data.cbFired
        /\ data.stBefore = "nil" => sess.st = "nil"

\* C9 (amended): when the reader fails part-way, Data returns the read
\* error (the writer's close error is dropped) and the writer is closed
\* exactly once; Status() afterwards is the status last handed to the
\* callback during that close when it fired, and what it was before the
\* call when it did not.
C9_ReadErrorReturnedWriterClosedOnce ==
    (DataReturned /\ data.copyErr = "readErr") =>
        /\ fwd.op = "Data" => fwd.ret = "readErr"
        /\ WriterCloses = 1
        /\ data.wlog = data.input \o <<"CLOSE">>
        /\ sess.st = IF data.cbFired THEN data.cbLast ELSE data.stBefore

C9_Witness ==
    /\ DataReturned /\ data.copyErr = "readErr" /\ fwd.op = "Data"
    /\ Len(data.input) = 1 /\ data.closeErr # "nil"
    /\ data.cbFired /\ sess.st = "250"

\* C10: once the session holds the connection, every step of Reset, Noop,
\* Mail, Rcpt, Data and Status leaves the upstream connection as it was
\* (no Close, no Quit), also when the forwarded command fails; Noop, Mail,
\* Rcpt and Logout return the upstream result unchanged.
C10_OnlyLogoutEndsConnection ==
    /\ [](fwd.op \in {"Noop", "Mail", "Rcpt", "Logout"} =>
              fwd.ret = fwd.upstream)
    /\ [][(~sess.nil /\ fwd'.op # "Logout") =>
              (conn' = conn /\ trace' = trace /\ c' = c)]_vars

C10_Witness ==
    /\ fwd.op = "Noop" /\ fwd.ret = "550" /\ conn.state = "open"
    /\ dataCalls > 0

(***************************************************************************)
(*                        Claims on concurrent calls                       *)
(***************************************************************************)
SessionOf(p) == conc.sessions[p]

\* C11: under every interleaving of concurrent Login / AnonymousLogin calls
\* on one Backend, a successful call returns a session holding the
\* connection that this very call dialled; no connection is held by two
\* sessions; a session keeps the same connection for as long as it exists;
\* and a connection held by a session is closed by no step of another call
\* (no failure, no close, no Logout of another session), only by a step of
\* that session.
C11_SessionsOwnTheirConnection ==
    /\ [](\A p \in Procs :
            /\ (Local(p).pc \in {"session", "loggedout"}) <=>
                   SessionOf(p) # 0
            /\ SessionOf(p) # 0 =>
                   /\ SessionOf(p) \in 1 .. Len(conc.conns)
                   /\ conc.conns[SessionOf(p)].dialer = p
                   /\ \A q \in Procs \ {p} : SessionOf(q) # SessionOf(p))
    /\ [][\A p \in Procs :
            SessionOf(p) # 0 =>
                /\ conc'.sessions[p] = SessionOf(p)
                /\ (conc'.conns[SessionOf(p)] # conc.conns[SessionOf(p)]) =>
                       (conc'.procs[p] # conc.procs[p])]_vars

C11_Witness ==
    /\ Local(1).pc = "session" /\ Local(2).pc = "failed"
    /\ Local(2).err = "auth"
    /\ conc.conns[SessionOf(1)].state = "open"
    /\ conc.conns[Local(2).c].state = "closed"
    /\ SessionOf(1) = 2

(***************************************************************************)
(*                 Claims on constructors and on newConn                   *)
(***************************************************************************)
\* C12: New yields an SMTP Backend with StartTLS, NewTLS an SMTP Backend
\* with TLS and the given TLS configuration, NewLMTP an LMTP Backend with
\* security None and the given host; so a constructed Backend never has
\* LMTP with a security other than None, and no call on it ever returns
\* the configuration error.
C12_ConstructorsNeverMisconfigured ==
    /\ \A a \in Addrs :
           /\ New(a).Addr = a /\ ~New(a).LMTP
           /\ New(a).Security = SecurityStartTLS
    /\ \A a \in Addrs, t \in TLSConfigs :
           /\ NewTLS(a, t).Addr = a /\ ~NewTLS(a, t).LMTP
           /\ NewTLS(a, t).Security = SecurityTLS
           /\ NewTLS(a, t).TLSConfig = t
    /\ \A a \in Addrs, h \in HostNames :
           /\ NewLMTP(a, h).Addr = a /\ NewLMTP(a, h).LMTP
           /\ NewLMTP(a, h).Security = SecurityNone
           /\ NewLMTP(a, h).Host = h
    /\ be.LMTP => be.Security = SecurityNone
    /\ err # "config"
    /\ ret.err # "config"
    /\ (pc \notin {"idle", "open"}) => Count(trace, "dial") = 1

C12_Witness ==
    /\ be = NewLMTP(<<"m", ":", "2">>, "h")
    /\ Returned /\ ret.session /\ entry = "Login"

\* the upstream operations of a newConn that succeeds, in order
ExpectedEstablish(b) ==
    <<"dial", "init">>
    \o (IF b.LocalName # "" THEN <<"hello">> ELSE <<>>)
    \o (IF b.Security = SecurityStartTLS THEN <<"starttls">> ELSE <<>>)

\* C13: in Login the authentication exchange is issued only after newConn
\* has succeeded in full: every step of newConn for this configuration
\* precedes it in order, with security StartTLS the upgrade has succeeded
\* before any credential is sent, and a call whose newConn failed at any
\* step issues no authentication exchange.
C13_AuthOnlyAfterFullEstablish ==
    LET exp == ExpectedEstablish(be) IN
    /\ pc = "auth" =>
           /\ entry = "Login" /\ trace = exp /\ err = "nil"
           /\ ~c.nil /\ conn.state = "open"
    /\ Auths >= 1 =>
           /\ entry = "Login"
           /\ SubSeq(trace, 1, Len(exp)) = exp
           /\ trace[Len(exp) + 1] = "auth"
    /\ (be.Security = SecurityStartTLS /\ (pc = "auth" \/ Auths >= 1)) =>
           conn.kind = "starttls"
    /\ (pc \in {"idle", "finish"}
          /\ err \in {"config", "dial", "init", "hello", "starttls"}) =>
           Auths = 0

C13_Witness ==
    /\ be.Security = SecurityStartTLS /\ be.LocalName # ""
    /\ Returned /\ ret.err = "auth"
    /\ trace = <<"dial", "init", "hello", "starttls", "auth", "close">>

\* the upstream operations newConn itself has issued in the current call
EstablishTrace == SelectSeq(trace, LAMBDA x : x \notin {"auth", "close"})

IsPrefix(s, t) == Len(s) <= Len(t) /\ SubSeq(t, 1, Len(s)) = s

\* C14: newConn performs its network steps in the order dial, client
\* initialization, Hello, StartTLS; a step is attempted only if every earlier
\* one succeeded, so the first failure is the last step of the call; Hello is
\* performed iff LocalName is non-empty, StartTLS iff Security is
\* SecurityStartTLS and never for an LMTP, TLS or None configuration.
C14_StepsInOrderFirstFailureAborts ==
    LET exp == ExpectedEstablish(be)
        est == EstablishTrace IN
    /\ IsPrefix(est, exp)
    /\ err = "config" => est = <<>>
    /\ err \in {"dial", "init", "hello", "starttls"} =>
           /\ est # <<>>
           /\ est[Len(est)] = err
    /\ (NewConnReturned /\ err = "nil") =>
           /\ est = exp
           /\ Count(trace, "hello") = (IF be.LocalName # "" THEN 1 ELSE 0)
           /\ Count(trace, "starttls")
                = (IF be.Security = SecurityStartTLS THEN 1 ELSE 0)
    /\ Count(trace, "hello") >= 1 => be.LocalName # ""
    /\ Count(trace, "starttls") >= 1 =>
           /\ be.Security = SecurityStartTLS
           /\ ~be.LMTP
    /\ (pc \notin {"idle", "open", "init"} /\ err = "nil") =>
           IsPrefix(<<"dial", "init">>, est)

C14_Witness ==
    /\ be.Security = SecurityStartTLS /\ be.LocalName # ""
    /\ Returned /\ ret.err = "hello"
    /\ trace = <<"dial", "init", "hello", "close">>

\* C15: a TLS-wrapped connection is dialled iff the configuration is SMTP
\* with SecurityTLS; every other valid configuration dials plain TCP (which
\* only a later successful StartTLS upgrades); every call that passes the
\* validation dials exactly once, with the resolved dial timeout.
C15_TransportSelection ==
    LET dialled == Count(trace, "dial") >= 1 IN
    /\ (dialled /\ pc \in {"init", "hello", "starttls"}) =>
           conn.kind \in {"tcp", "tls"}
    /\ dialled =>
           /\ conn.kind = "tls" <=> (~be.LMTP /\ be.Security = SecurityTLS)
           /\ (be.LMTP \/ be.Security = SecurityNone) => conn.kind = "tcp"
           /\ be.Security = SecurityStartTLS =>
                  conn.kind \in {"tcp", "starttls"}
           /\ conn.kind = "starttls" => Count(trace, "starttls") = 1
           /\ conn.timeout = (IF be.DialTimeout = 0 THEN defaultTimeout
                                                    ELSE be.DialTimeout)
    /\ Count(trace, "dial") <= 1
    /\ (pc \notin {"idle", "open"}) =>
           Count(trace, "dial") = (IF err = "config" THEN 0 ELSE 1)
    /\ dialCount = (IF ConfigError(be) THEN 0
                    ELSE IF pc = "open" THEN calls - 1 ELSE calls)

C15_Witness ==
    /\ ~be.LMTP /\ be.Security = SecurityTLS /\ be.DialTimeout = 7
    /\ calls = 2 /\ dialCount = 2
    /\ Returned /\ ret.session
    /\ conn.kind = "tls" /\ conn.timeout = 7

\* C16: for every LMTP configuration the host handed to the LMTP client
\* initialization is the resolved host (Host when set, otherwise the host
\* part of Addr, never the empty string in its place), and the same resolved
\* host is the TLS server name when the configuration sets none.
C16_LMTPClientGetsResolvedHost ==
    LET host == IF be.Host # "" THEN be.Host ELSE SplitHostPort(be.Addr) IN
    /\ (Count(trace, "init") >= 1 /\ ~c.nil /\ c.lmtp) => c.host = host
    /\ (pc # "idle" /\ (be.TLSConfig.nil \/ be.TLSConfig.ServerName = "")) =>
           locals.tlsConfig.ServerName = host

\* C17: when opening the upstream data writer fails, Data returns that error
\* having read no input byte and closed no writer, and the status is what it
\* was; when the writer opens and the copy succeeds, Data returns exactly the
\* writer's close result, so it succeeds iff the close succeeded.
C17_DataReturnsOpenOrCloseError ==
    (DataReturned /\ fwd.op = "Data") =>
        /\ ~data.opened =>
               /\ fwd.ret = fwd.upstream
               /\ fwd.ret # "nil"
               /\ data.input = <<>>
               /\ data.wlog = <<>>
               /\ StatusOf(sess) = data.stBefore
        /\ (data.opened /\ data.copyErr = "nil") =>
               /\ fwd.ret = data.closeErr
               /\ fwd.ret = "nil" <=> data.closeErr = "nil"
               /\ WriterCloses = 1

C17_Witness ==
    /\ DataReturned /\ fwd.op = "Data"
    /\ data.opened /\ data.copyErr = "nil" /\ Len(data.input) = MaxLen
    /\ data.closeErr = "550" /\ fwd.ret = "550"

\* C18: the status slot changes only while a Data call closes its writer
\* (through the status callback): a step of Reset, Noop, Mail, Rcpt, Logout
\* or Status leaves the session as it was, and Status returns the slot's
\* value without changing it, so that repeated calls return the same value.
C18_StatusChangesOnlyInData ==
    [][/\ StatusOf(sess') # StatusOf(sess) =>
              /\ data.pc = "close"
              /\ data'.pc = "idle"
              /\ data'.cbFired
              /\ StatusOf(sess') = data'.cbLast
       /\ (data' = data /\ dataCalls' = dataCalls) => sess' = sess
       /\ (fwd'.op \in {"Reset", "Noop", "Mail", "Rcpt", "Logout", "Status"}
             /\ fwd' # fwd) => sess' = sess
       /\ (fwd'.op = "Status" /\ data' = data) =>
              /\ fwd'.ret = StatusOf(sess)
              /\ fwd'.ret = StatusOf(sess')]_vars

C18_Witness ==
    /\ dataCalls = 1 /\ SessionIdle
    /\ fwd.op = "Status" /\ fwd.ret = "554" /\ StatusOf(sess) = "554"

\* C19 (as claimed): after any Data call has returned, Status() reflects
\* that call only: it is the status the callback delivered during that call
\* or it is absent, never a status latched by an earlier Data call.
C19_StatusOfLastDataOnly ==
    DataReturned =>
        \/ StatusOf(sess) = "nil"
        \/ data.cbFired /\ StatusOf(sess) = data.cbLast

\* C19 (amended): after a Data call has returned, Status() is the status
\* the callback delivered during that call when it fired; when it did not
\* fire (the writer failed to open, or the close delivered no status) it is
\* whatever the slot held before the call, which is absent only for a
\* session whose earlier Data calls delivered none; Reset does not clear it.
C19_StatusKeptUntilNextCallback ==
    /\ (DataReturned /\ ~data.cbFired) => StatusOf(sess) = data.stBefore
    /\ (DataReturned /\ ~data.opened) => ~data.cbFired
    /\ (DataReturned /\ data.cbFired) =>
           /\ data.opened
           /\ StatusOf(sess) = data.cbLast
    /\ (DataReturned /\ dataCalls = 1 /\ ~data.cbFired) =>
           StatusOf(sess) = "nil"
    /\ (DataReturned /\ fwd.op = "Reset") =>
           StatusOf(sess) = (IF data.cbFired THEN data.cbLast
                                             ELSE data.stBefore)

C19_Witness ==
    /\ dataCalls = 2 /\ DataReturned
    /\ ~data.opened /\ data.stBefore = "250"
    /\ fwd.op = "Status" /\ fwd.ret = "250"

\* C20: newConn never modifies the Backend: the server name is set on the
\* per-call TLS configuration only, and Addr, Host, Security and the
\* timeouts are left as they were, so that every later call on the same
\* Backend resolves the same effective values as the calls before it.
C20_NewConnLeavesBackendUnchanged ==
    [][/\ be' = be
       /\ calls' # calls =>
              /\ locals' = Resolve(be)
              /\ locals'.tlsConfig = ResolveTLS(be', ResolveHost(be'))
       /\ (calls' # calls /\ calls >= 1) => locals' = locals
       /\ calls' = calls => locals' = locals]_vars

C20_Witness ==
    /\ calls = 2 /\ Returned
    /\ ~be.TLSConfig.nil /\ be.TLSConfig.ServerName = ""
    /\ locals.tlsConfig.ServerName = "m"
    /\ locals.dialTimeout = defaultTimeout

=============================================================================
